---- MODULE Spec2Model ----
(***************************************************************************)
(* A model of grpc_pytools/pythonic.py: the Generator that writes a        *)
(* Pythonic service wrapper for a gRPC service of a compiled xx_pb2        *)
(* module, and its helpers slice_every, camelize and underscore.           *)
(*                                                                         *)
(* A Python str is modelled as the sequence of its ASCII codes, so that    *)
(* case conversion, the regular expressions, startswith and the sort of    *)
(* the stub's attribute names are computed character by character.         *)
(***************************************************************************)
EXTENDS Integers, Sequences, FiniteSets

VARIABLES
    self,        \* the Generator's attributes, set by __init__
    pb2_module,  \* the imported xx_pb2 module: its descriptor pool, its attributes
    pc,          \* the position of generate()
    out,         \* what was written to Generator.writer, one entry per write()
    called,      \* the write_* methods generate() has called so far
    exc,         \* the exception that ended generate(), or "none"
    word,        \* naming: the input string
    ops,         \* naming: the functions applied so far, in order
    vals,        \* naming: the value each of them returned
    raised,      \* naming: the exception the last of them raised, or "none"
    sl_args,     \* slice_every: its arguments
    sl_ret       \* slice_every: what list(slice_every(...)) gave

vars == <<self, pb2_module, pc, out, called, exc,
          word, ops, vals, raised, sl_args, sl_ret>>

gen_vars == <<self, pb2_module, pc, out, called, exc>>
naming_vars == <<word, ops, vals, raised>>
slice_vars == <<sl_args, sl_ret>>

(***************************************************************************)
(* Bounds of the model.                                                    *)
(***************************************************************************)
MaxLen == 4          \* naming: the longest input string
MaxSteps == 3        \* naming: how many conversions are chained
MaxItems == 3        \* slice_every: the longest input sequence
MaxChunk == 3        \* slice_every: the largest |n|
MaxRpcs == 2         \* the most rpc methods a stub declares
MaxDescriptors == 2  \* the most descriptors in the pool
MaxArgsSize == 2     \* the largest --rpc-method-args-size

(***************************************************************************)
(* Characters and strings.                                                 *)
(***************************************************************************)
CH_underscore == 95
CH_hyphen == 45
CH_dot == 46
CH_newline == 10

isupper(c) == c \in 65..90
islower(c) == c \in 97..122
isdigit(c) == c \in 48..57

upper(c) == IF islower(c) THEN c - 32 ELSE c
lower(c) == IF isupper(c) THEN c + 32 ELSE c

lower_str(s) == [i \in 1..Len(s) |-> lower(s[i])]

startswith(s, prefix) ==
    /\ Len(prefix) <= Len(s)
    /\ SubSeq(s, 1, Len(prefix)) = prefix

Tail_from(s, i) == SubSeq(s, i, Len(s))

\* s < t as Python compares two str: by the first differing character, a
\* proper prefix first.
RECURSIVE str_lt(_, _)
str_lt(s, t) ==
    IF t = <<>> THEN FALSE
    ELSE IF s = <<>> THEN TRUE
    ELSE IF s[1] # t[1] THEN s[1] < t[1]
    ELSE str_lt(Tail(s), Tail(t))

STR_self == <<115, 101, 108, 102>>               \* "self"
STR_pb2_suffix == <<95, 112, 98, 50>>            \* "_pb2"
STR_Stub == <<83, 116, 117, 98>>                 \* "Stub"
STR_dunder == <<95, 95>>                         \* "__"
STR_call_rpc == <<99, 97, 108, 108, 95, 114, 112, 99>>  \* "call_rpc"

(***************************************************************************)
(* slice_every(iterable, n, padding, padding_item), consumed to the end.   *)
(* itertools.islice(iterable, n) raises ValueError for a negative n and    *)
(* takes nothing for n = 0.                                                *)
(***************************************************************************)
PAD_None == -1   \* padding_item=None

islice(iterable, n) ==
    SubSeq(iterable, 1, IF n < Len(iterable) THEN n ELSE Len(iterable))

RECURSIVE slice_pieces(_, _, _, _)
slice_pieces(iterable, n, padding, padding_item) ==
    LET piece == islice(iterable, n)
        padding_len == n - Len(piece)
        padded == IF padding_len # 0 /\ padding
                  THEN piece \o [i \in 1..padding_len |-> padding_item]
                  ELSE piece
    IN IF piece = <<>> THEN <<>>
       ELSE <<padded>> \o
            slice_pieces(Tail_from(iterable, Len(piece) + 1), n,
                         padding, padding_item)

slice_every(iterable, n, padding, padding_item) ==
    IF n < 0
    THEN [exc |-> "ValueError", val |-> <<>>]
    ELSE [exc |-> "none",
          val |-> slice_pieces(iterable, n, padding, padding_item)]

(***************************************************************************)
(* camelize(string, uppercase_first_letter).                               *)
(***************************************************************************)
\* camelize_sub upper-casing the whole match, m.group(0), so that the
\* underscore stays.
RECURSIVE camelize_sub_group0(_, _)
camelize_sub_group0(string, pos) ==
    IF pos > Len(string) THEN <<>>
    ELSE IF pos = 1 /\ string[1] # CH_newline
    THEN <<upper(string[1])>> \o camelize_sub_group0(string, 2)
    ELSE IF /\ string[pos] = CH_underscore
            /\ pos + 1 <= Len(string)
            /\ string[pos + 1] # CH_newline
    THEN <<CH_underscore, upper(string[pos + 1])>> \o
         camelize_sub_group0(string, pos + 2)
    ELSE <<string[pos]>> \o camelize_sub_group0(string, pos + 1)

\* re.sub(r"(?:^|_)(.)", lambda m: m.group(1).upper(), string) from pos on:
\* '^' matches at the start only, '.' any character but a newline, and the
\* search goes on after each match.
RECURSIVE camelize_sub(_, _)
camelize_sub(string, pos) ==
    IF pos > Len(string) THEN <<>>
    ELSE IF pos = 1 /\ string[1] # CH_newline
    THEN <<upper(string[1])>> \o camelize_sub(string, 2)
    ELSE IF /\ string[pos] = CH_underscore
            /\ pos + 1 <= Len(string)
            /\ string[pos + 1] # CH_newline
    THEN <<upper(string[pos + 1])>> \o camelize_sub(string, pos + 2)
    ELSE <<string[pos]>> \o camelize_sub(string, pos + 1)

camelize_upper(string) == camelize_sub(string, 1)

\* string[0] of an empty string raises IndexError.
camelize(string, uppercase_first_letter) ==
    IF uppercase_first_letter
    THEN [exc |-> "none", val |-> camelize_upper(string)]
    ELSE IF string = <<>>
    THEN [exc |-> "IndexError", val |-> <<>>]
    ELSE [exc |-> "none",
          val |-> <<lower(string[1])>> \o Tail_from(camelize_upper(string), 2)]

(***************************************************************************)
(* underscore(word).                                                       *)
(***************************************************************************)
\* The length of the run of [A-Z] that starts at pos.
RECURSIVE upper_run(_, _)
upper_run(w, pos) ==
    IF pos <= Len(w) /\ isupper(w[pos]) THEN 1 + upper_run(w, pos + 1) ELSE 0

\* The length of group 1 of ([A-Z]+)([A-Z][a-z]) matched at pos, 0 for no
\* match: [A-Z]+ is greedy and gives back one character at a time.
match_acronym(w, pos) ==
    LET ks == {k \in 1..upper_run(w, pos) :
                 /\ pos + k + 1 <= Len(w)
                 /\ isupper(w[pos + k])
                 /\ islower(w[pos + k + 1])}
    IN IF ks = {} THEN 0 ELSE CHOOSE k \in ks : \A j \in ks : j <= k

\* re.sub(r"([A-Z]+)([A-Z][a-z])", r'\1_\2', word) from pos on.
RECURSIVE sub_acronym(_, _)
sub_acronym(w, pos) ==
    IF pos > Len(w) THEN <<>>
    ELSE LET k == match_acronym(w, pos)
         IN IF k > 0
            THEN SubSeq(w, pos, pos + k - 1) \o <<CH_underscore>> \o
                 SubSeq(w, pos + k, pos + k + 1) \o sub_acronym(w, pos + k + 2)
            ELSE <<w[pos]>> \o sub_acronym(w, pos + 1)

\* sub_boundary with re.IGNORECASE: ([a-z\d]) and ([A-Z]) match a letter of
\* either case.
RECURSIVE sub_boundary_ignorecase(_, _)
sub_boundary_ignorecase(w, pos) ==
    IF pos > Len(w) THEN <<>>
    ELSE IF /\ pos + 1 <= Len(w)
            /\ (islower(w[pos]) \/ isupper(w[pos]) \/ isdigit(w[pos]))
            /\ (isupper(w[pos + 1]) \/ islower(w[pos + 1]))
    THEN <<w[pos], CH_underscore, w[pos + 1]>> \o
         sub_boundary_ignorecase(w, pos + 2)
    ELSE <<w[pos]>> \o sub_boundary_ignorecase(w, pos + 1)

\* re.sub(r"([a-z\d])([A-Z])", r'\1_\2', word) from pos on.
RECURSIVE sub_boundary(_, _)
sub_boundary(w, pos) ==
    IF pos > Len(w) THEN <<>>
    ELSE IF /\ pos + 1 <= Len(w)
            /\ (islower(w[pos]) \/ isdigit(w[pos]))
            /\ isupper(w[pos + 1])
    THEN <<w[pos], CH_underscore, w[pos + 1]>> \o sub_boundary(w, pos + 2)
    ELSE <<w[pos]>> \o sub_boundary(w, pos + 1)

\* word.replace("-", "_")
replace_hyphen(w) ==
    [i \in 1..Len(w) |-> IF w[i] = CH_hyphen THEN CH_underscore ELSE w[i]]

underscore(w) ==
    lower_str(replace_hyphen(sub_boundary(sub_acronym(w, 1), 1)))

(***************************************************************************)
(* The inputs of a run: the command line and the imported module.          *)
(***************************************************************************)
STR_foo_pb2 == <<102, 111, 111, 95, 112, 98, 50>>                     \* "foo_pb2"
STR_pkg_foo_pb2 == <<112, 107, 103, 46, 102, 111, 111, 95, 112, 98, 50>>  \* "pkg.foo_pb2"
STR_Foo == <<70, 111, 111>>                                           \* "Foo"
STR_Bar == <<66, 97, 114>>                                            \* "Bar"
STR_invoke == <<105, 110, 118, 111, 107, 101>>                        \* "invoke"
STR_GetUser == <<71, 101, 116, 85, 115, 101, 114>>                    \* "GetUser"
STR_AddUser == <<65, 100, 100, 85, 115, 101, 114>>                    \* "AddUser"
STR_Ping == <<80, 105, 110, 103>>                                     \* "Ping"
STR_GetUserRequest == <<71, 101, 116, 85, 115, 101, 114, 82, 101, 113, 117, 101, 115, 116>>
STR_AddUserRequest == <<65, 100, 100, 85, 115, 101, 114, 82, 101, 113, 117, 101, 115, 116>>
STR_Empty == <<69, 109, 112, 116, 121>>                               \* "Empty"
STR_id == <<105, 100>>                                                \* "id"
STR_name == <<110, 97, 109, 101>>                                     \* "name"
STR_userId == <<117, 115, 101, 114, 73, 100>>                         \* "userId"
STR_email == <<101, 109, 97, 105, 108>>                               \* "email"
STR_foo == <<102, 111, 111>>                                          \* "foo"
STR_bar == <<98, 97, 114>>                                            \* "bar"
STR_foobar == <<102, 111, 111, 98, 97, 114>>                          \* "foobar"
STR_foo_Color == <<102, 111, 111, 46, 67, 111, 108, 111, 114>>        \* "foo.Color"
STR_bar_Shade == <<98, 97, 114, 46, 83, 104, 97, 100, 101>>           \* "bar.Shade"
STR_foobar_Kind == <<102, 111, 111, 98, 97, 114, 46, 75, 105, 110, 100>>  \* "foobar.Kind"
STR_Color == <<67, 111, 108, 111, 114>>                               \* "Color"
STR_Shade == <<83, 104, 97, 100, 101>>                                \* "Shade"
STR_Kind == <<75, 105, 110, 100>>                                     \* "Kind"
STR_foo_User == <<102, 111, 111, 46, 85, 115, 101, 114>>              \* "foo.User"
STR_foobar_Other == <<102, 111, 111, 98, 97, 114, 46, 79, 116, 104, 101, 114>>  \* "foobar.Other"
STR_bar_Item == <<98, 97, 114, 46, 73, 116, 101, 109>>                \* "bar.Item"
STR_User == <<85, 115, 101, 114>>                                     \* "User"
STR_Other == <<79, 116, 104, 101, 114>>                               \* "Other"
STR_Item == <<73, 116, 101, 109>>                                     \* "Item"
STR_RED == <<82, 69, 68>>                                             \* "RED"
STR_GREEN == <<71, 82, 69, 69, 78>>                                   \* "GREEN"
STR_init == <<95, 95, 105, 110, 105, 116, 95, 95>>                    \* "__init__"
STR_class == <<95, 95, 99, 108, 97, 115, 115, 95, 95>>                \* "__class__"
STR_req == <<114, 101, 113>>                                          \* "req"

\* The sequences of distinct elements of S of length at most n.
DistinctSeqs(S, n) ==
    {q \in UNION {[1..k -> S] : k \in 0..n} :
        \A i, j \in DOMAIN q : i # j => q[i] # q[j]}

\* --pb2-module-name, --service-name (none given: the empty string),
\* --core-method-name, --unfold-method-args, --rpc-method-args-size.
ModuleNames == {STR_foo_pb2, STR_pkg_foo_pb2}
ServiceNames == {<<>>, STR_Bar}
CoreMethodNames == {STR_call_rpc, STR_invoke}
ArgsSizes == (0 - 1)..MaxArgsSize

\* The command lines: rpc_method_args_size is read in unfolded mode only, so
\* a folded run is given its default.
CommandLines ==
    {c \in [pb2_module_name : ModuleNames, service_name : ServiceNames,
            core_method_name : CoreMethodNames,
            unfold_method_args : BOOLEAN,
            rpc_method_args_size : ArgsSizes] :
        c.unfold_method_args \/ c.rpc_method_args_size = 0}

\* The rpc methods a stub may declare: its attribute, the class of its
\* request and the fields of that class, as declared.
RpcUniverse ==
    {[name |-> STR_GetUser, req_name |-> STR_GetUserRequest,
      fields |-> <<STR_id, STR_name>>],
     [name |-> STR_AddUser, req_name |-> STR_AddUserRequest,
      fields |-> <<STR_userId, STR_name, STR_email>>],
     [name |-> STR_Ping, req_name |-> STR_Empty, fields |-> <<>>]}

\* The descriptors the pool may hold, each with the package of its file.
EnumUniverse ==
    {[full_name |-> STR_foo_Color, name |-> STR_Color, package |-> STR_foo,
      values |-> <<[name |-> STR_RED, number |-> 0],
                   [name |-> STR_GREEN, number |-> 1]>>],
     [full_name |-> STR_bar_Shade, name |-> STR_Shade, package |-> STR_bar,
      values |-> <<[name |-> STR_RED, number |-> 0]>>],
     [full_name |-> STR_foobar_Kind, name |-> STR_Kind,
      package |-> STR_foobar,
      values |-> <<[name |-> STR_GREEN, number |-> 0],
                   [name |-> STR_RED, number |-> 0]>>]}

MessageUniverse ==
    {[full_name |-> STR_foo_User, name |-> STR_User, package |-> STR_foo],
     [full_name |-> STR_bar_Item, name |-> STR_Item, package |-> STR_bar],
     [full_name |-> STR_foobar_Other, name |-> STR_Other,
      package |-> STR_foobar]}

\* An imported module: the pool's two dicts in the order iteritems() walks
\* them, the service whose <service>Stub class the module defines, and the
\* rpc methods of that stub in the order its __init__ declares them.
Pb2Modules ==
    {m \in [enum_descriptors : DistinctSeqs(EnumUniverse, MaxDescriptors),
            descriptors : DistinctSeqs(MessageUniverse, MaxDescriptors),
            stub_service : {STR_Foo, STR_Bar},
            rpcs : DistinctSeqs(RpcUniverse, MaxRpcs)] :
        Len(m.enum_descriptors) + Len(m.descriptors) <= MaxDescriptors}

(***************************************************************************)
(* Generator.__init__                                                      *)
(***************************************************************************)
\* The index of the last c in s, 0 when there is none.
RECURSIVE rfind(_, _, _)
rfind(s, c, i) ==
    IF i = 0 THEN 0 ELSE IF s[i] = c THEN i ELSE rfind(s, c, i - 1)

\* string[:-n] for n > 0
drop_last(s, n) == SubSeq(s, 1, Len(s) - n)

\* The five arguments come as one record, args.
__init__(args) ==
    LET pb2_module_name == args.pb2_module_name
        service_name == args.service_name
        dot == rfind(pb2_module_name, CH_dot, Len(pb2_module_name))
        pb2_path == IF dot > 0 THEN SubSeq(pb2_module_name, 1, dot - 1)
                    ELSE <<>>
        pb2_name == IF dot > 0 THEN Tail_from(pb2_module_name, dot + 1)
                    ELSE pb2_module_name
        proto_package_name == drop_last(pb2_name, Len(STR_pb2_suffix))
        the_service_name == IF service_name # <<>> THEN service_name
                            ELSE camelize(proto_package_name, TRUE).val
    IN [pb2_module_name |-> pb2_module_name,
        core_method_name |-> args.core_method_name,
        unfold_method_args |-> args.unfold_method_args,
        rpc_method_args_size |-> args.rpc_method_args_size,
        pb2_path |-> pb2_path,
        pb2_name |-> pb2_name,
        proto_package_name |-> proto_package_name,
        service_name |-> the_service_name,
        stub_class_name |-> the_service_name \o STR_Stub]

(***************************************************************************)
(* What each write_* method writes: a sequence of write() calls, each a    *)
(* record of the slots its template fills.                                 *)
(***************************************************************************)
has_enum_types ==
    \E i \in DOMAIN pb2_module.enum_descriptors :
        startswith(pb2_module.enum_descriptors[i].full_name,
                   self.proto_package_name)

write_module_header ==
    <<[kind |-> "module_header",
       import_enum |-> has_enum_types,
       import_from |-> self.pb2_path,
       import_name |-> self.pb2_name]>>

\* write_enum_types without its filter.
enum_matches_all(d) == TRUE

enum_matches(d) == startswith(d.full_name, self.proto_package_name)

write_enum_types ==
    LET matching == SelectSeq(pb2_module.enum_descriptors, enum_matches)
    IN [i \in DOMAIN matching |->
          [kind |-> "enum",
           enum_name |-> matching[i].name,
           values |-> matching[i].values]]

message_matches(d) == startswith(d.full_name, self.proto_package_name)

write_message_types ==
    LET matching == SelectSeq(pb2_module.descriptors, message_matches)
    IN <<[kind |-> "message_sep"]>> \o
       [i \in DOMAIN matching |->
          [kind |-> "message_alias",
           name |-> matching[i].name,
           pb2_name |-> self.pb2_name]]

write_class_header ==
    <<[kind |-> "class_header", service_name |-> self.service_name]>>

write_class_constructor == <<[kind |-> "constructor"]>>

write_stub_property ==
    <<[kind |-> "stub_property",
       pb2_name |-> self.pb2_name,
       stub_class_name |-> self.stub_class_name]>>

write_core_method ==
    <<[kind |-> "core_method",
       core_method_name |-> self.core_method_name]>>

\* write_folded_rpc_method passing the underscored name to the core method.
write_folded_rpc_method_underscored(method_name, req_name) ==
    [exc |-> "none",
     writes |->
       <<[kind |-> "rpc_method",
          mode |-> "folded",
          def_name |-> underscore(method_name),
          indent |-> 0,
          param_lines |-> <<<<STR_self, underscore(req_name)>>>>,
          req_class |-> <<>>,
          kwargs |-> <<>>,
          core |-> self.core_method_name,
          rpc_name |-> underscore(method_name),
          req_arg |-> underscore(req_name)]>>]

write_folded_rpc_method(method_name, req_name) ==
    [exc |-> "none",
     writes |->
       <<[kind |-> "rpc_method",
          mode |-> "folded",
          def_name |-> underscore(method_name),
          indent |-> 0,
          param_lines |-> <<<<STR_self, underscore(req_name)>>>>,
          req_class |-> <<>>,
          kwargs |-> <<>>,
          core |-> self.core_method_name,
          rpc_name |-> method_name,
          req_arg |-> underscore(req_name)]>>]

write_unfolded_rpc_method(method_name, req_name, req_param_names) ==
    LET indented_header_len == 8 + Len(underscore(method_name)) + 1
        full_params == <<STR_self>> \o req_param_names
        args_size == IF self.rpc_method_args_size # 0
                     THEN self.rpc_method_args_size
                     ELSE Len(full_params)
        sliced == slice_every(full_params, args_size, FALSE, PAD_None)
    IN IF sliced.exc # "none"
       THEN [exc |-> sliced.exc, writes |-> <<>>]
       ELSE [exc |-> "none",
             writes |->
               <<[kind |-> "rpc_method",
                  mode |-> "unfolded",
                  def_name |-> underscore(method_name),
                  indent |-> indented_header_len,
                  param_lines |-> sliced.val,
                  req_class |-> req_name,
                  kwargs |-> [i \in DOMAIN req_param_names |->
                                <<req_param_names[i], req_param_names[i]>>],
                  core |-> self.core_method_name,
                  rpc_name |-> method_name,
                  req_arg |-> STR_req]>>]

\* hasattr(self.pb2_module, name)
module_has(name) == name = pb2_module.stub_service \o STR_Stub

\* The attributes of a stub instance: what its __init__ sets and what every
\* object has.
DunderAttrs == {STR_init, STR_class}

stub_attrs == {pb2_module.rpcs[i].name : i \in DOMAIN pb2_module.rpcs}
                  \cup DunderAttrs

\* getattr(stub, stub_method_name)
stub_method(stub_method_name) ==
    CHOOSE r \in {pb2_module.rpcs[i] : i \in DOMAIN pb2_module.rpcs} :
        r.name = stub_method_name

\* dir(stub): the names of the attributes, alphabetized.
RECURSIVE dir(_)
dir(attrs) ==
    IF attrs = {} THEN <<>>
    ELSE LET least == CHOOSE a \in attrs :
                          \A b \in attrs \ {a} : str_lt(a, b)
         IN <<least>> \o dir(attrs \ {least})

\* list.sort()
RECURSIVE insert_sorted(_, _)
insert_sorted(sorted, a) ==
    IF sorted = <<>> THEN <<a>>
    ELSE IF str_lt(a, sorted[1]) THEN <<a>> \o sorted
    ELSE <<sorted[1]>> \o insert_sorted(Tail(sorted), a)

RECURSIVE list_sort(_)
list_sort(names) ==
    IF names = <<>> THEN <<>>
    ELSE insert_sorted(list_sort(SubSeq(names, 1, Len(names) - 1)),
                       names[Len(names)])

is_public(attr) == ~startswith(attr, STR_dunder)

\* The public names in the order the stub declares them, never sorted.
stub_method_names_declared ==
    SelectSeq([i \in DOMAIN pb2_module.rpcs |-> pb2_module.rpcs[i].name],
              is_public)

stub_method_names == list_sort(SelectSeq(dir(stub_attrs), is_public))

\* The loop over stub_methods from the i-th name on: it ends at the first
\* exception.
RECURSIVE rpc_method_loop(_, _)
rpc_method_loop(names, i) ==
    IF i > Len(names) THEN [exc |-> "none", writes |-> <<>>]
    ELSE LET m == stub_method(names[i])
             req_name == m.req_name
             req_param_names == [k \in DOMAIN m.fields |->
                                   underscore(m.fields[k])]
             one == IF self.unfold_method_args
                    THEN write_unfolded_rpc_method(names[i], req_name,
                                                   req_param_names)
                    ELSE write_folded_rpc_method(names[i], req_name)
             rest == rpc_method_loop(names, i + 1)
         IN IF one.exc # "none" THEN one
            ELSE [exc |-> rest.exc, writes |-> one.writes \o rest.writes]

write_rpc_methods ==
    IF ~module_has(self.stub_class_name)
    THEN [exc |-> "AttributeError", writes |-> <<>>]
    ELSE rpc_method_loop(stub_method_names, 1)

(***************************************************************************)
(* Generator.generate: the write_* methods in the order it calls them.     *)
(***************************************************************************)
\* generate calling write_core_method before write_stub_property.
generate_core_first ==
    <<"write_module_header", "write_enum_types", "write_message_types",
      "write_class_header", "write_class_constructor", "write_core_method",
      "write_stub_property", "write_rpc_methods">>

generate ==
    <<"write_module_header", "write_enum_types", "write_message_types",
      "write_class_header", "write_class_constructor", "write_stub_property",
      "write_core_method", "write_rpc_methods">>

\* pc is the index in generate of the call to make next.
Returned(writes) ==
    /\ out' = out \o writes
    /\ called' = Append(called, generate[pc])
    /\ pc' = pc + 1
    /\ UNCHANGED <<self, pb2_module, exc, naming_vars, slice_vars>>

At(method) == pc \in DOMAIN generate /\ generate[pc] = method /\ exc = "none"

Init ==
    /\ \E args \in CommandLines : self = __init__(args)
    /\ pb2_module \in Pb2Modules
    /\ pc = 1
    /\ out = <<>>
    /\ called = <<>>
    /\ exc = "none"
    /\ word = <<>> /\ ops = <<>> /\ vals = <<>> /\ raised = "none"
    /\ sl_args = [state |-> "unused"] /\ sl_ret = [state |-> "unused"]

WriteModuleHeader ==
    At("write_module_header") /\ Returned(write_module_header)

WriteEnumTypes ==
    At("write_enum_types") /\ Returned(write_enum_types)

WriteMessageTypes ==
    At("write_message_types") /\ Returned(write_message_types)

WriteClassHeader ==
    At("write_class_header") /\ Returned(write_class_header)

WriteClassConstructor ==
    At("write_class_constructor") /\ Returned(write_class_constructor)

WriteStubProperty ==
    At("write_stub_property") /\ Returned(write_stub_property)

WriteCoreMethod ==
    At("write_core_method") /\ Returned(write_core_method)

\* What was written before an exception stays written.
WriteRpcMethods ==
    /\ At("write_rpc_methods")
    /\ LET r == write_rpc_methods
       IN /\ out' = out \o r.writes
          /\ called' = Append(called, generate[pc])
          /\ exc' = r.exc
          /\ pc' = IF r.exc = "none" THEN pc + 1 ELSE pc
    /\ UNCHANGED <<self, pb2_module, naming_vars, slice_vars>>

Done == pc = Len(generate) + 1 /\ exc = "none"

Next ==
    \/ WriteModuleHeader
    \/ WriteEnumTypes
    \/ WriteMessageTypes
    \/ WriteClassHeader
    \/ WriteClassConstructor
    \/ WriteStubProperty
    \/ WriteCoreMethod
    \/ WriteRpcMethods

Spec == Init /\ [][Next]_vars

(***************************************************************************)
(* The naming functions applied to bounded inputs.                         *)
(***************************************************************************)
\* "A", "B", "a", "1", "_", "-"
Alphabet == {65, 66, 97, 49, CH_underscore, CH_hyphen}

Words == UNION {[1..n -> Alphabet] : n \in 0..MaxLen}

Cur == IF vals = <<>> THEN word ELSE vals[Len(vals)]

\* The argument of the i-th conversion.
ArgOf(i) == IF i = 1 THEN word ELSE vals[i - 1]

NamingInit ==
    /\ word \in Words
    /\ ops = <<>>
    /\ vals = <<>>
    /\ raised = "none"
    /\ self = [state |-> "unused"] /\ pb2_module = [state |-> "unused"]
    /\ pc = 0 /\ out = <<>> /\ called = <<>> /\ exc = "none"
    /\ sl_args = [state |-> "unused"] /\ sl_ret = [state |-> "unused"]

ApplyUnderscore ==
    /\ raised = "none"
    /\ Len(ops) < MaxSteps
    /\ ops' = Append(ops, "underscore")
    /\ vals' = Append(vals, underscore(Cur))
    /\ UNCHANGED <<word, raised, gen_vars, slice_vars>>

ApplyCamelize ==
    /\ raised = "none"
    /\ Len(ops) < MaxSteps
    /\ \E uppercase_first_letter \in BOOLEAN :
         LET r == camelize(Cur, uppercase_first_letter)
         IN /\ ops' = Append(ops, IF uppercase_first_letter
                                  THEN "camelize" ELSE "camelize_lower")
            /\ vals' = Append(vals, r.val)
            /\ raised' = r.exc
    /\ UNCHANGED <<word, gen_vars, slice_vars>>

NamingNext ==
    \/ ApplyUnderscore
    \/ ApplyCamelize

SpecNaming == NamingInit /\ [][NamingNext]_vars

(***************************************************************************)
(* slice_every applied to bounded inputs.                                  *)
(***************************************************************************)
Items == UNION {[1..n -> 0..2] : n \in 0..MaxItems}

SliceInit ==
    /\ sl_args \in [iterable : Items, n : (0 - MaxChunk)..MaxChunk,
                    padding : BOOLEAN]
    /\ sl_ret = [exc |-> "pending", val |-> <<>>]
    /\ self = [state |-> "unused"] /\ pb2_module = [state |-> "unused"]
    /\ pc = 0 /\ out = <<>> /\ called = <<>> /\ exc = "none"
    /\ word = <<>> /\ ops = <<>> /\ vals = <<>> /\ raised = "none"

CallSliceEvery ==
    /\ sl_ret.exc = "pending"
    /\ sl_ret' = slice_every(sl_args.iterable, sl_args.n, sl_args.padding,
                             PAD_None)
    /\ UNCHANGED <<sl_args, gen_vars, naming_vars>>

SliceNext == CallSliceEvery

SpecSlice == SliceInit /\ [][SliceNext]_vars

(***************************************************************************)
(* The claims.                                                             *)
(***************************************************************************)
IsPrefix(s, t) == Len(s) <= Len(t) /\ SubSeq(t, 1, Len(s)) = s

\* s sorts before t: at the first place they differ s has the smaller
\* character, or s ends there and t does not.
LexLess(s, t) ==
    \E k \in 1..(Len(s) + 1) :
        /\ \A j \in 1..(k - 1) : j <= Len(t) /\ s[j] = t[j]
        /\ \/ k = Len(s) + 1 /\ k <= Len(t)
           \/ k <= Len(s) /\ k <= Len(t) /\ s[k] < t[k]

HasPrefix(s, p) == \A k \in 1..Len(p) : k <= Len(s) /\ s[k] = p[k]

RECURSIVE Flatten(_)
Flatten(lines) ==
    IF lines = <<>> THEN <<>> ELSE lines[1] \o Flatten(Tail(lines))

IsRpcWrite(w) == w.kind = "rpc_method"
RpcWrites == SelectSeq(out, IsRpcWrite)

DeclaredRpcs == {pb2_module.rpcs[i] : i \in DOMAIN pb2_module.rpcs}

CountKind(kind) == Cardinality({i \in DOMAIN out : out[i].kind = kind})

SectionOf(kind) ==
    CASE kind = "module_header" -> 1
      [] kind = "enum" -> 2
      [] kind \in {"message_sep", "message_alias"} -> 3
      [] kind = "class_header" -> 4
      [] kind = "constructor" -> 5
      [] kind = "stub_property" -> 6
      [] kind = "core_method" -> 7
      [] kind = "rpc_method" -> 8

FragmentsInOrder ==
    /\ called = <<"write_module_header", "write_enum_types",
                  "write_message_types", "write_class_header",
                  "write_class_constructor", "write_stub_property",
                  "write_core_method", "write_rpc_methods">>
    /\ \A i, j \in DOMAIN out :
         i < j => SectionOf(out[i].kind) <= SectionOf(out[j].kind)
    /\ \A kind \in {"module_header", "message_sep", "class_header",
                    "constructor", "stub_property", "core_method"} :
         CountKind(kind) = 1
    /\ \A i, j \in DOMAIN out :
         out[i].kind = "message_sep" /\ out[j].kind = "message_alias"
           => i < j

\* C1: a run of generate() that completes has written the module header,
\* then the enum declarations, then the message aliases, then the class
\* header, the constructor, the stub accessor, the core dispatch method and
\* last the rpc methods, each write_* method called once and each fixed
\* fragment written once; and every step only appends to what was written.
C1_FragmentOrder ==
    /\ [](Done => FragmentsInOrder)
    /\ [][IsPrefix(out, out')]_vars

C1_Witness ==
    /\ Done
    /\ CountKind("enum") >= 1
    /\ CountKind("message_alias") >= 1
    /\ CountKind("rpc_method") >= 2

\* C2: when the module has no <serviceName>Stub attribute, generation
\* aborts with nothing written.
C2_AbortBeforeOutput == exc = "AttributeError" => out = <<>>

PublicAttrs ==
    {a \in stub_attrs : ~(Len(a) >= 2 /\ a[1] = 95 /\ a[2] = 95)}

\* C3: a completed run has written one method per public stub attribute, in
\* ascending lexicographic order of the attribute names, whatever the order
\* the stub declares them in.
C3_SortedRpcMethods ==
    Done =>
      LET w == RpcWrites
      IN /\ Len(w) = Cardinality(PublicAttrs)
         /\ {w[i].rpc_name : i \in DOMAIN w} = PublicAttrs
         /\ \A i, j \in DOMAIN w :
              i < j => LexLess(w[i].rpc_name, w[j].rpc_name)

C3_Witness ==
    /\ Done
    /\ Len(pb2_module.rpcs) >= 2
    /\ LexLess(pb2_module.rpcs[2].name, pb2_module.rpcs[1].name)
    /\ Len(RpcWrites) >= 2

\* C4: every rpc method written is in the mode the run was configured
\* with, calls the core method under its configured name with the rpc's
\* literal stub attribute name, and in folded mode takes beside self the one
\* parameter underscore(request class name), which it passes as the request.
C4_MethodsCallCore ==
    \A i \in DOMAIN out :
      out[i].kind = "rpc_method" =>
        /\ out[i].mode = (IF self.unfold_method_args THEN "unfolded"
                          ELSE "folded")
        /\ out[i].core = self.core_method_name
        /\ \E r \in DeclaredRpcs :
             /\ out[i].def_name = underscore(r.name)
             /\ out[i].rpc_name = r.name
             /\ out[i].mode = "folded" =>
                  /\ out[i].param_lines =
                       <<<<STR_self, underscore(r.req_name)>>>>
                  /\ out[i].req_arg = underscore(r.req_name)

C4_Witness ==
    /\ Done
    /\ ~self.unfold_method_args
    /\ self.core_method_name = STR_invoke
    /\ Len(RpcWrites) >= 2
    /\ RpcWrites[1].rpc_name # RpcWrites[1].def_name

\* C5: in unfolded mode, whatever the chunk size, write_rpc_methods writes
\* for every rpc a method whose parameters, read across its lines, are self
\* and then the underscored request fields in declared order, no line
\* holding more than the chunk size (a size of 0 or less being unbounded),
\* and whose request is built with one keyword name=name per field.
C5_UnfoldedParams ==
    (/\ self.unfold_method_args
     /\ Len(called) = Len(generate)
     /\ module_has(self.stub_class_name)) =>
      \A r \in DeclaredRpcs :
        \E i \in DOMAIN out :
          LET params == [k \in DOMAIN r.fields |-> underscore(r.fields[k])]
          IN /\ out[i].kind = "rpc_method"
             /\ out[i].rpc_name = r.name
             /\ Flatten(out[i].param_lines) = <<STR_self>> \o params
             /\ self.rpc_method_args_size > 0 =>
                  \A l \in DOMAIN out[i].param_lines :
                    Len(out[i].param_lines[l]) <= self.rpc_method_args_size
             /\ out[i].req_class = r.req_name
             /\ out[i].kwargs = [k \in DOMAIN params |->
                                   <<params[k], params[k]>>]

EnumEmitted(d) ==
    \E i \in DOMAIN out :
      /\ out[i].kind = "enum"
      /\ out[i].enum_name = d.name
      /\ out[i].values = d.values

MessageEmitted(d) ==
    \E i \in DOMAIN out :
      out[i].kind = "message_alias" /\ out[i].name = d.name

PoolEnums ==
    {pb2_module.enum_descriptors[i] : i \in DOMAIN pb2_module.enum_descriptors}

PoolMessages ==
    {pb2_module.descriptors[i] : i \in DOMAIN pb2_module.descriptors}

PoolWritten == Len(called) >= 3

EmittedIffPrefix ==
    /\ \A d \in PoolEnums :
         EnumEmitted(d) <=> HasPrefix(d.full_name, self.proto_package_name)
    /\ \A d \in PoolMessages :
         MessageEmitted(d) <=>
           HasPrefix(d.full_name, self.proto_package_name)

\* C6 as amended: once write_enum_types and write_message_types have
\* returned, an enum or message of the pool is in the output if and only if
\* its full name starts with the derived package name.
C6_EmittedIffPrefix == PoolWritten => EmittedIffPrefix

C6_Witness ==
    /\ PoolWritten
    /\ \E d \in PoolEnums : EnumEmitted(d)
    /\ \E d \in PoolEnums \cup PoolMessages :
         ~HasPrefix(d.full_name, self.proto_package_name)

\* C6 as stated: the same, and a descriptor of another package is never in
\* the output.
C6_OtherPackagesNeverEmitted ==
    PoolWritten =>
      /\ EmittedIffPrefix
      /\ \A d \in PoolEnums :
           d.package # self.proto_package_name => ~EnumEmitted(d)
      /\ \A d \in PoolMessages :
           d.package # self.proto_package_name => ~MessageEmitted(d)

\* C7: for a chunk size n <= 0 slice_every gives one chunk that holds all
\* the items of the input in order.
C7_NonPositiveIsUnbounded ==
    (/\ sl_ret.exc # "pending"
     /\ sl_args.n <= 0
     /\ sl_args.iterable # <<>>) =>
      /\ sl_ret.exc = "none"
      /\ sl_ret.val = <<sl_args.iterable>>

\* C8: underscore applied to a result of underscore gives it back.
C8_UnderscoreIdempotent ==
    \A i \in 1..(Len(ops) - 1) :
      ops[i] = "underscore" /\ ops[i + 1] = "underscore"
        => vals[i + 1] = vals[i]

C8_Witness ==
    /\ Len(ops) >= 2
    /\ ops[1] = "underscore" /\ ops[2] = "underscore"
    /\ Len(vals[1]) > Len(word)
    /\ \E k \in DOMAIN word : word[k] = CH_hyphen

IsCamelRoundTrip(i) ==
    /\ i + 2 <= Len(ops)
    /\ ops[i] = "camelize"
    /\ ops[i + 1] = "underscore"
    /\ ops[i + 2] = "camelize"

\* A camel form underscore can take apart again: no separator in it and no
\* two capitals in a row.
IsPlainCamel(c) ==
    /\ \A k \in DOMAIN c : c[k] # CH_underscore /\ c[k] # CH_hyphen
    /\ \A k \in 1..(Len(c) - 1) : ~(isupper(c[k]) /\ isupper(c[k + 1]))

IsSeparator(ch) == ch = CH_underscore \/ ch = CH_hyphen
NotSeparator(ch) == ~IsSeparator(ch)

\* A string without its separators and in lower case.
Letters(c) == lower_str(SelectSeq(c, NotSeparator))

\* C9 as stated: camelize(underscore(camelize(x))) = camelize(x).
C9_RoundTrip ==
    \A i \in DOMAIN ops : IsCamelRoundTrip(i) => vals[i + 2] = vals[i]

\* C9 as amended: camelize(underscore(camelize(x))) and camelize(x) are the
\* same up to letter case and separators, and are equal when camelize(x)
\* has no underscore, no hyphen and no two adjacent capitals.
C9_RoundTripUpToCase ==
    \A i \in DOMAIN ops :
      IsCamelRoundTrip(i) =>
        /\ Letters(vals[i + 2]) = Letters(vals[i])
        /\ IsPlainCamel(vals[i]) => vals[i + 2] = vals[i]

C9_Witness ==
    /\ IsCamelRoundTrip(1)
    /\ IsPlainCamel(vals[1])
    /\ Len(vals[2]) > Len(vals[1])
    /\ vals[3] = vals[1]
    /\ vals[1] # word

LowerFirst(c) == IF c = <<>> THEN <<>> ELSE <<lower(c[1])>> \o Tail(c)

\* C10: camelize(s, False) returns for every s, the empty string too, and
\* returns camelize(s, True) with its first character in lower case.
C10_CamelizeLowerTotal ==
    \A i \in DOMAIN ops :
      ops[i] = "camelize_lower" =>
        /\ i = Len(ops) => raised = "none"
        /\ vals[i] = LowerFirst(camelize_upper(ArgOf(i)))

====
